---- MODULE Spec2Model ----
(***************************************************************************)
(* Control plane of the txgbe virtual-function (VF) poll-mode driver,      *)
(* drivers/net/txgbe/txgbe_ethdev_vf.c: device init / uninit / close,      *)
(* mailbox API negotiation, the unicast MAC address handlers and the       *)
(* interrupt mask helpers.                                                 *)
(*                                                                         *)
(* Every handler is one action.  The calls a handler makes to its          *)
(* collaborators (base driver, mailbox, allocator, register access) are    *)
(* recorded, in program order and with the result each returned, in the    *)
(* variable ops; call holds the handler that ran last and its arguments,   *)
(* ret the value it returned.                                              *)
(***************************************************************************)
EXTENDS Integers, Sequences, FiniteSets, TLC

(* ------------------------------ bounds -------------------------------- *)

\* Capacity of the address table in the model.  The driver sets
\* hw->mac.num_rar_entries = 128 (line 155); the replay loop is uniform in it.
NumRarEntries == 3

\* rte_rand() returns a value in 0..MaxRand.
MaxRand == 1

\* The framework configures at most this many transmit queues.
MaxTxQueues == 1
MaxOffloadWord == 3

(* --------------------------- program constants ------------------------ *)

EIO == 5
EAGAIN == 11
ENOMEM == 12
TXGBE_ERR_INVALID_MAC_ADDR == -266
TXGBE_ERR_RESET_FAILED == -271
TXGBE_VFIMS_MASK == 7
TXGBE_VFIMC_MASK == 7
RTE_ETHER_LOCAL_ADMIN_ADDR == 2
RTE_ETHER_ADDR_LEN == 6

txgbe_mbox_api_10 == 10
txgbe_mbox_api_11 == 11
txgbe_mbox_api_12 == 12
txgbe_mbox_api_13 == 13

sup_ver_ascending == <<txgbe_mbox_api_10, txgbe_mbox_api_11,
                       txgbe_mbox_api_12, txgbe_mbox_api_13>>

\* static const int sup_ver[]: highest supported first
sup_ver == <<txgbe_mbox_api_13, txgbe_mbox_api_12,
             txgbe_mbox_api_11, txgbe_mbox_api_10>>

\* A representative non-zero status of a mailbox exchange.
TXGBE_ERR_MBOX == 0 - 100

MbxResults == {0, TXGBE_ERR_MBOX}
ResetResults == {0, TXGBE_ERR_INVALID_MAC_ADDR, TXGBE_ERR_RESET_FAILED}

(* ------------------------------ addresses ----------------------------- *)

\* struct rte_ether_addr: six bytes
ZeroAddr == <<0, 0, 0, 0, 0, 0>>
NoAddr == <<>>
\* an address the PF assigns to the VF at reset
PfAddr == <<0, 27, 33, 1, 2, 3>>
\* secondary addresses the application adds
UserA == <<2, 0, 0, 0, 0, 1>>
UserB == <<2, 0, 0, 0, 0, 2>>
UserAddrs == {UserA, UserB}

NULL == <<>>

rte_is_zero_ether_addr(a) == \A k \in 1..RTE_ETHER_ADDR_LEN : a[k] = 0

RECURSIVE BitOr(_, _)
BitOr(a, b) ==
  IF a = 0 THEN b
  ELSE IF b = 0 THEN a
  ELSE (IF a % 2 = 1 \/ b % 2 = 1 THEN 1 ELSE 0) + 2 * BitOr(a \div 2, b \div 2)

\* memcpy(&mac_addr->addr_bytes[3], &random, 3) on a little-endian build
RandByte(random, k) == (random \div (256 ^ k)) % 256

generate_random_mac_addr_no_local_bit(random) ==
  <<0, 9, 192, RandByte(random, 0), RandByte(random, 1), RandByte(random, 2)>>

generate_random_mac_addr(random) ==
  <<BitOr(0, RTE_ETHER_LOCAL_ADMIN_ADDR), 9, 192,
    RandByte(random, 0), RandByte(random, 1), RandByte(random, 2)>>

GeneratedAddrs == {generate_random_mac_addr(r) : r \in 0..MaxRand}

(* ------------------------------- state -------------------------------- *)

VARIABLES
  lifecycle,      \* where the framework is in the device's life
  api_version,    \* hw->api_version
  perm_addr,      \* hw->mac.perm_addr
  mac_addrs,      \* eth_dev->data->mac_addrs: NULL or NumRarEntries slots
  mask_misc,      \* intr->mask_misc, the local mirror of the mask
  hw_intr,        \* last interrupt register written: "none", "VFIMS", "VFIMC"
  entry_intr,     \* hw_intr when the last handler was entered
  pf_uc,          \* unicast addresses the PF has programmed for this VF
  nb_tx_queues,   \* eth_dev->data->nb_tx_queues
  tx_queues,      \* eth_dev->data->tx_queues: NULL or "array"
  bind,           \* per process: dev_ops and data-path functions bound
  call,           \* the handler that ran last, with its arguments
  ops,            \* collaborator calls of that handler, in order
  logs,           \* the errors that handler logged, in order
  ret,            \* its return value (0 for a void handler)
  dev_info        \* the rte_eth_dev_info the last info query filled in

vars == <<lifecycle, api_version, perm_addr, mac_addrs, mask_misc, hw_intr,
          entry_intr, pf_uc, nb_tx_queues, tx_queues, bind, call, ops, logs,
          ret, dev_info>>

Procs == {"primary", "secondary"}

\* one collaborator call: what was called, with which number and address,
\* and what it returned
Ev(op, val, addr, res) == [op |-> op, val |-> val, addr |-> addr, res |-> res]

\* one error-level log line: the call that failed and its error code
Lg(op, err) == [op |-> op, err |-> err]

Call(op, proc, index, addr, accept) ==
  [op |-> op, proc |-> proc, index |-> index, addr |-> addr, accept |-> accept]

NoBind == [dev_ops |-> FALSE, tx |-> "default", rx |-> "unset"]

\* in ret: the handler did not return, the process ended inside it
NoReturn == 0 - 1000

\* the offload words of an rte_eth_dev_info nobody has filled in
NoInfo == [rx_queue_offload_capa |-> 0, rx_offload_capa |-> 0,
           tx_queue_offload_capa |-> 0, tx_offload_capa |-> 0]

\* slot i (counted from 0, as in the C code) of an allocated table
Slot(tbl, i) == tbl[i + 1]

ZeroTable == [k \in 1..NumRarEntries |-> ZeroAddr]

(* ------------------------- interrupt mask helpers --------------------- *)

\* hw is the interrupt register written last before the call
intr_disable_no_write(hw) ==
  [ops |-> <<>>, mask |-> TXGBE_VFIMS_MASK, hw |-> hw]

txgbevf_intr_disable(hw) ==
  [ops |-> <<Ev("wr32_VFIMS", TXGBE_VFIMS_MASK, NoAddr, 0),
             Ev("txgbe_flush", 0, NoAddr, 0)>>,
   mask |-> TXGBE_VFIMS_MASK,
   hw |-> "VFIMS"]

intr_enable_keeps_mirror(hw) ==
  [ops |-> <<Ev("wr32_VFIMC", TXGBE_VFIMC_MASK, NoAddr, 0),
             Ev("txgbe_flush", 0, NoAddr, 0)>>,
   mask |-> TXGBE_VFIMS_MASK,
   hw |-> "VFIMC"]

txgbevf_intr_enable(hw) ==
  [ops |-> <<Ev("wr32_VFIMC", TXGBE_VFIMC_MASK, NoAddr, 0),
             Ev("txgbe_flush", 0, NoAddr, 0)>>,
   mask |-> 0,
   hw |-> "VFIMC"]

(* --------------------------- API negotiation -------------------------- *)

\* txgbevf_negotiate_api_version (base driver): one mailbox round trip; the
\* PF acknowledges the versions in accept.  On an acknowledge the version
\* becomes hw->api_version and 0 is returned.
txgbevf_negotiate_api_version(accept, api, ver) ==
  IF ver \in accept
    THEN [api |-> ver, res |-> 0]
    ELSE [api |-> api, res |-> TXGBE_ERR_MBOX]

RECURSIVE negotiate_no_break(_, _, _)
negotiate_no_break(accept, api, i) ==
  IF i > Len(sup_ver) THEN [api |-> api, ops |-> <<>>]
  ELSE LET r == txgbevf_negotiate_api_version(accept, api, sup_ver[i])
           rest == negotiate_no_break(accept, r.api, i + 1)
       IN [api |-> rest.api,
           ops |-> <<Ev("negotiate_api_version", sup_ver[i], NoAddr, r.res)>>
                   \o rest.ops]

\* the loop of txgbevf_negotiate_api from position i of sup_ver
RECURSIVE negotiate_from(_, _, _)
negotiate_from(accept, api, i) ==
  IF i > Len(sup_ver) THEN [api |-> api, ops |-> <<>>]
  ELSE LET r == txgbevf_negotiate_api_version(accept, api, sup_ver[i])
           e == Ev("negotiate_api_version", sup_ver[i], NoAddr, r.res)
       IN IF r.res = 0
            THEN [api |-> r.api, ops |-> <<e>>]
            ELSE LET rest == negotiate_from(accept, r.api, i + 1)
                 IN [api |-> rest.api, ops |-> <<e>> \o rest.ops]

negotiate_api_no_break(accept, api) == negotiate_no_break(accept, api, 1)

txgbevf_negotiate_api(accept, api) == negotiate_from(accept, api, 1)

(* ------------------------------ device init --------------------------- *)

\* what the environment answers during one primary init
InitInputs ==
  [shared : {0, 0 - 1},              \* txgbe_init_shared_code
   reset : ResetResults,             \* hw->mac.reset_hw
   reset_perm : {ZeroAddr, PfAddr},  \* perm_addr as reset_hw leaves it
   accept : SUBSET {sup_ver[k] : k \in 1..Len(sup_ver)},
   queues : MbxResults,              \* txgbevf_get_queues
   alloc : BOOLEAN,                  \* rte_zmalloc returned memory
   random : 0..MaxRand,              \* rte_rand
   rar : MbxResults,                 \* txgbe_set_rar_vf
   start : {0, 0 - 1}]               \* hw->mac.start_hw

\* the state one init run leaves, and what it did
Out(st, o, r, lg) ==
  [perm |-> st.perm, mac |-> st.mac, api |-> st.api, mask |-> st.mask,
   hw |-> st.hw, ops |-> o, ret |-> r, logs |-> lg]

reset_fatal_on_any_error(err) == err # 0

\* line 163: which results of reset_hw end the init
ResetFatal(err) == err # 0 /\ err # TXGBE_ERR_INVALID_MAC_ADDR

\* lines 210-226: copy the permanent address, start, enable interrupts
init_start(st, o, in) ==
  LET mac2 == [st.mac EXCEPT ![1] = st.perm]
      o2 == o \o <<Ev("rte_ether_addr_copy", 0, st.perm, 0),
                   Ev("start_hw", 0, NoAddr, in.start)>>
      st2 == [st EXCEPT !.mac = mac2]
  IN IF in.start # 0
       THEN Out(st2, o2, 0 - EIO, <<Lg("start_hw", in.start)>>)
       ELSE LET en == txgbevf_intr_enable(st.hw)
            IN Out([st2 EXCEPT !.mask = en.mask, !.hw = en.hw],
                   o2 \o en.ops, 0, <<>>)

\* line 191
NeedsRandomMac(perm) == rte_is_zero_ether_addr(perm)

init_addr_keeps_table(st, o, in) ==
  LET o1 == o \o <<Ev("rte_zmalloc", RTE_ETHER_ADDR_LEN * NumRarEntries, NoAddr,
                      IF in.alloc THEN 1 ELSE 0)>>
  IN IF ~in.alloc
       THEN Out([st EXCEPT !.mac = NULL], o1, 0 - ENOMEM,
                <<Lg("rte_zmalloc", 0)>>)
       ELSE LET st1 == [st EXCEPT !.mac = ZeroTable]
            IN IF NeedsRandomMac(st.perm)
                 THEN LET gen == generate_random_mac_addr(in.random)
                          o2 == o1 \o <<Ev("rte_rand", in.random, NoAddr, 0),
                                        Ev("txgbe_set_rar_vf", 1, gen, in.rar)>>
                          st2 == [st1 EXCEPT !.perm = gen]
                      IN IF in.rar # 0
                           THEN Out(st2, o2, in.rar, <<>>)
                           ELSE init_start(st2, o2, in)
                 ELSE init_start(st1, o1, in)

\* lines 179-208: allocate the table, resolve the permanent address
init_addr(st, o, in) ==
  LET o1 == o \o <<Ev("rte_zmalloc", RTE_ETHER_ADDR_LEN * NumRarEntries, NoAddr,
                      IF in.alloc THEN 1 ELSE 0)>>
  IN IF ~in.alloc
       THEN Out([st EXCEPT !.mac = NULL], o1, 0 - ENOMEM,
                <<Lg("rte_zmalloc", 0)>>)
       ELSE LET st1 == [st EXCEPT !.mac = ZeroTable]
            IN IF NeedsRandomMac(st.perm)
                 THEN LET gen == generate_random_mac_addr(in.random)
                          o2 == o1 \o <<Ev("rte_rand", in.random, NoAddr, 0),
                                        Ev("txgbe_set_rar_vf", 1, gen, in.rar)>>
                          st2 == [st1 EXCEPT !.perm = gen]
                      IN IF in.rar # 0
                           THEN Out([st2 EXCEPT !.mac = NULL],
                                    o2 \o <<Ev("rte_free", 0, NoAddr, 0)>>,
                                    in.rar, <<>>)
                           ELSE init_start(st2, o2, in)
                 ELSE init_start(st1, o1, in)

\* lines 133-227: eth_txgbevf_dev_init in the primary process.  st is the
\* state on entry: [perm, mac, api, mask, hw].
dev_init_primary(st, in) ==
  LET o0 == <<Ev("rte_eth_copy_pci_info", 0, NoAddr, 0),
              Ev("txgbe_init_shared_code", 0, NoAddr, in.shared)>>
  IN IF in.shared # 0
       THEN Out(st, o0, 0 - EIO,
                <<Lg("txgbe_init_shared_code", in.shared)>>)
       ELSE LET dis == txgbevf_intr_disable(st.hw)
                \* reset_hw puts the mailbox API back to the basic version
                \* and reads the permanent address the PF assigned
                st1 == [st EXCEPT !.mask = dis.mask, !.hw = dis.hw,
                                  !.api = txgbe_mbox_api_10,
                                  !.perm = in.reset_perm]
                o1 == o0 \o <<Ev("mbx_init_params", 0, NoAddr, 0)>> \o dis.ops
                         \o <<Ev("reset_hw", 0, in.reset_perm, in.reset)>>
            IN IF ResetFatal(in.reset)
                 THEN Out(st1, o1, 0 - EAGAIN, <<Lg("reset_hw", in.reset)>>)
                 ELSE LET neg == txgbevf_negotiate_api(in.accept, st1.api)
                          o2 == o1 \o neg.ops
                                   \o <<Ev("txgbevf_get_queues", 0, NoAddr,
                                           in.queues)>>
                      IN init_addr([st1 EXCEPT !.api = neg.api], o2, in)

\* lines 113-131: eth_txgbevf_dev_init in a secondary process: which
\* transmit function the process has afterwards; cur is the one it has on
\* entry.  txq is read at index nb_tx_queues - 1 whenever the queue array
\* is there; without the array only a notice is logged and the transmit
\* function is left as it is.
secondary_tx(txqs, nb, cur) ==
  IF txqs # NULL
    THEN [ops |-> <<Ev("txgbe_set_tx_function", nb - 1, NoAddr, 0)>>,
          tx |-> IF nb >= 1 THEN {"by_txq"} ELSE {"by_txq", "fault"}]
    ELSE [ops |-> <<>>, tx |-> {cur}]

(* ------------------------- unicast address handlers ------------------- *)

\* the PF's side of txgbevf_set_uc_addr_vf: index 0 clears the VF's
\* unicast list, any other index adds the address; a request the PF
\* refuses changes nothing
PfApply(pf, e) ==
  IF e.op # "txgbevf_set_uc_addr_vf" \/ e.res # 0 THEN pf
  ELSE IF e.val = 0 THEN {}
  ELSE pf \cup {e.addr}

RECURSIVE PfAfter(_, _)
PfAfter(pf, o) ==
  IF o = <<>> THEN pf ELSE PfAfter(PfApply(pf, Head(o)), Tail(o))

\* lines 397-406: a refused add request is logged
add_logs(res) ==
  IF res # 0 THEN <<Lg("txgbevf_set_uc_addr_vf", res)>> ELSE <<>>

add_without_perm_check(perm, a, res) ==
  [ops |-> <<Ev("txgbevf_set_uc_addr_vf", 2, a, res)>>, ret |-> res,
   logs |-> add_logs(res)]

add_returns_minus_one(perm, a, res) ==
  IF perm = a
    THEN [ops |-> <<>>, ret |-> 0 - 1, logs |-> <<>>]
    ELSE [ops |-> <<Ev("txgbevf_set_uc_addr_vf", 2, a, res)>>,
          ret |-> IF res = 0 THEN 0 ELSE 0 - 1,
          logs |-> add_logs(res)]

\* lines 380-408: txgbevf_add_mac_addr; res is the mailbox's answer
add_mac_addr(perm, a, res) ==
  IF perm = a
    THEN [ops |-> <<>>, ret |-> 0 - 1, logs |-> <<>>]
    ELSE [ops |-> <<Ev("txgbevf_set_uc_addr_vf", 2, a, res)>>, ret |-> res,
          logs |-> add_logs(res)]

replay_skips_no_perm(tbl, perm, index, i) ==
  \/ i = index
  \/ rte_is_zero_ether_addr(Slot(tbl, i))

\* lines 434-443: the slots the replay loop passes over
ReplaySkips(tbl, perm, index, i) ==
  \/ i = index
  \/ rte_is_zero_ether_addr(Slot(tbl, i))
  \/ perm = Slot(tbl, i)

\* lines 432-457: the replay loop from slot i; rs[j] is the mailbox's
\* answer to the re-add of slot j
RECURSIVE replay_from(_, _, _, _, _)
replay_from(tbl, perm, index, rs, i) ==
  IF i >= NumRarEntries THEN <<>>
  ELSE IF ReplaySkips(tbl, perm, index, i)
    THEN replay_from(tbl, perm, index, rs, i + 1)
    ELSE <<Ev("txgbevf_set_uc_addr_vf", 2, Slot(tbl, i), rs[i])>>
         \o replay_from(tbl, perm, index, rs, i + 1)

remove_stops_at_failure(tbl, perm, index, rc, rs) ==
  LET all == replay_from(tbl, perm, index, rs, 0)
      bad == {k \in 1..Len(all) : all[k].res # 0}
      cut == IF bad = {} THEN Len(all)
             ELSE CHOOSE k \in bad : \A m \in bad : k <= m
  IN <<Ev("txgbevf_set_uc_addr_vf", 0, NoAddr, rc)>> \o SubSeq(all, 1, cut)

\* lines 410-458: txgbevf_remove_mac_addr; rc is the mailbox's answer to
\* the clear request
remove_mac_addr(tbl, perm, index, rc, rs) ==
  <<Ev("txgbevf_set_uc_addr_vf", 0, NoAddr, rc)>>
  \o replay_from(tbl, perm, index, rs, 0)

replay_logs_nothing(o) == <<>>

\* lines 445-456: each re-add the PF refused is logged; the answer to the
\* clear request (line 426) is not looked at
replay_logs(o) ==
  LET bad == SelectSeq(o, LAMBDA e : e.val # 0 /\ e.res # 0)
  IN [k \in 1..Len(bad) |-> Lg(bad[k].op, bad[k].res)]

\* the mailbox's answers to one replay: one for each slot that is re-added
ReplayResults(tbl, perm, index) ==
  [{i \in 0..(NumRarEntries - 1) : ~ReplaySkips(tbl, perm, index, i)}
     -> MbxResults]

(* ------------------------------ device close ------------------------- *)

\* txgbe_dev_free_queues (queue code): releases every queue and leaves the
\* queue counts at zero; the queue arrays belong to the ethdev layer and
\* stay until it releases the port
txgbe_dev_free_queues(nb) == 0

CloseInputs(tbl, perm) ==
  [reset : ResetResults, rc : MbxResults, rs : ReplayResults(tbl, perm, 0)]

close_disables_first(st, in, reset_perm) ==
  LET dis == txgbevf_intr_disable(st.hw)
      o1 == <<Ev("reset_hw", 0, reset_perm, in.reset),
              Ev("txgbe_dev_free_queues", 0, NoAddr, 0)>>
      rm == remove_mac_addr(st.mac, reset_perm, 0, in.rc, in.rs)
  IN Out([st EXCEPT !.perm = reset_perm, !.api = txgbe_mbox_api_10,
                    !.mask = dis.mask, !.hw = dis.hw, !.mac = NULL],
         dis.ops \o o1 \o rm \o <<Ev("rte_free", 0, NoAddr, 0)>>,
         0, replay_logs(rm))

close_frees_first(st, in, reset_perm) ==
  LET o1 == <<Ev("reset_hw", 0, reset_perm, in.reset),
              Ev("txgbe_dev_free_queues", 0, NoAddr, 0),
              Ev("rte_free", 0, NoAddr, 0)>>
      rm == remove_mac_addr(st.mac, reset_perm, 0, in.rc, in.rs)
      dis == txgbevf_intr_disable(st.hw)
  IN Out([st EXCEPT !.perm = reset_perm, !.api = txgbe_mbox_api_10,
                    !.mask = dis.mask, !.hw = dis.hw, !.mac = NULL],
         o1 \o rm \o dis.ops, 0, replay_logs(rm))

\* lines 360-377: txgbevf_dev_close in the primary process.  reset_perm is
\* the permanent address as reset_hw leaves it.
dev_close_primary(st, in, reset_perm) ==
  LET o1 == <<Ev("reset_hw", 0, reset_perm, in.reset),
              Ev("txgbe_dev_free_queues", 0, NoAddr, 0)>>
      rm == remove_mac_addr(st.mac, reset_perm, 0, in.rc, in.rs)
      dis == txgbevf_intr_disable(st.hw)
  IN Out([st EXCEPT !.perm = reset_perm, !.api = txgbe_mbox_api_10,
                    !.mask = dis.mask, !.hw = dis.hw, !.mac = NULL],
         o1 \o rm \o dis.ops \o <<Ev("rte_free", 0, NoAddr, 0)>>,
         0, replay_logs(rm))

(* --------------------------- device information ---------------------- *)

\* the values an offload capability word takes
OffloadWords == 0..MaxOffloadWord

\* lines 280-284: the offload words of txgbevf_dev_info_get; rxq, rxp, txq
\* and txp are what txgbe_get_rx_queue_offloads, txgbe_get_rx_port_offloads,
\* txgbe_get_tx_queue_offloads and txgbe_get_tx_port_offloads return
dev_info_offloads(rxq, rxp, txq, txp) ==
  [rx_queue_offload_capa |-> rxq,
   rx_offload_capa |-> BitOr(rxp, rxq),
   tx_queue_offload_capa |-> txq,
   tx_offload_capa |-> txp]

(* ------------------------------- actions ------------------------------ *)

Entry == [perm |-> perm_addr, mac |-> mac_addrs, api |-> api_version,
          mask |-> mask_misc, hw |-> hw_intr]

Negotiated(o) == \E k \in 1..Len(o) : o[k].op = "txgbevf_get_queues"

\* eth_txgbevf_dev_init, primary process
InitPrimary ==
  /\ lifecycle = "Uninitialized"
  /\ \E in \in InitInputs :
       \E r \in {dev_init_primary(Entry, in)} :
          /\ perm_addr' = r.perm
          /\ mac_addrs' = r.mac
          /\ api_version' = r.api
          /\ mask_misc' = r.mask
          /\ hw_intr' = r.hw
          /\ ops' = r.ops
          /\ logs' = r.logs
          /\ ret' = r.ret
          /\ lifecycle' = IF r.ret = 0 THEN "Running" ELSE "InitFailed"
          /\ call' = Call("init", "primary", 0, NoAddr,
                          IF Negotiated(r.ops) THEN in.accept ELSE {})
  /\ entry_intr' = hw_intr
  /\ bind' = [bind EXCEPT !["primary"].dev_ops = TRUE]
  /\ UNCHANGED <<pf_uc, nb_tx_queues, tx_queues, dev_info>>

\* eth_txgbevf_dev_init, secondary process: attaches to a port the
\* primary has initialised, which the port stays until the ethdev layer
\* releases it.  A read of tx_queues[-1] either yields some queue, by which
\* a transmit function is chosen, or ends the process inside the handler.
InitSecondary ==
  /\ lifecycle \in {"Running", "Closed"}
  /\ LET sel == secondary_tx(tx_queues, nb_tx_queues, bind["secondary"].tx)
     IN \E t \in sel.tx :
          IF t = "fault"
            THEN /\ bind' = [bind EXCEPT !["secondary"] =
                               [dev_ops |-> TRUE, tx |-> t,
                                rx |-> bind["secondary"].rx]]
                 /\ ops' = sel.ops
                 /\ ret' = NoReturn
            ELSE /\ bind' = [bind EXCEPT !["secondary"] =
                               [dev_ops |-> TRUE, tx |-> t, rx |-> "set"]]
                 /\ ops' = sel.ops
                           \o <<Ev("txgbe_set_rx_function", 0, NoAddr, 0)>>
                 /\ ret' = 0
  /\ logs' = <<>>
  /\ call' = Call("init", "secondary", 0, NoAddr, {})
  /\ entry_intr' = hw_intr
  /\ UNCHANGED <<lifecycle, api_version, perm_addr, mac_addrs, mask_misc,
                 hw_intr, pf_uc, nb_tx_queues, tx_queues, dev_info>>

eth_txgbevf_dev_init(proc) ==
  IF proc # "primary" THEN InitSecondary ELSE InitPrimary

\* txgbevf_dev_close (name = "close") and eth_txgbevf_dev_uninit
\* (name = "uninit", lines 229-241), primary process
ClosePrimary(proc, name) ==
  /\ lifecycle = "Running"
  /\ \E rp \in {perm_addr, PfAddr} :
     \E in \in CloseInputs(mac_addrs, rp) :
       \E r \in {dev_close_primary(Entry, in, rp)} :
          /\ perm_addr' = r.perm
          /\ mac_addrs' = r.mac
          /\ api_version' = r.api
          /\ mask_misc' = r.mask
          /\ hw_intr' = r.hw
          /\ ops' = r.ops
          /\ logs' = r.logs
          /\ ret' = r.ret
          /\ pf_uc' = PfAfter(pf_uc, r.ops)
  /\ lifecycle' = "Closed"
  /\ nb_tx_queues' = txgbe_dev_free_queues(nb_tx_queues)
  /\ call' = Call(name, proc, 0, NoAddr, {})
  /\ entry_intr' = hw_intr
  /\ UNCHANGED <<tx_queues, bind, dev_info>>

\* lines 357-358 and 235-236: nothing is done in a secondary process
CloseSecondary(name) ==
  /\ bind["secondary"].dev_ops
  /\ ops' = <<>>
  /\ logs' = <<>>
  /\ ret' = 0
  /\ call' = Call(name, "secondary", 0, NoAddr, {})
  /\ entry_intr' = hw_intr
  /\ UNCHANGED <<lifecycle, api_version, perm_addr, mac_addrs, mask_misc,
                 hw_intr, pf_uc, nb_tx_queues, tx_queues, bind, dev_info>>

dev_close_or_uninit(proc, name) ==
  IF proc # "primary" THEN CloseSecondary(name) ELSE ClosePrimary(proc, name)

txgbevf_dev_close(proc) == dev_close_or_uninit(proc, "close")

eth_txgbevf_dev_uninit(proc) == dev_close_or_uninit(proc, "uninit")

\* txgbevf_add_mac_addr(dev, mac_addr, index, pool)
txgbevf_add_mac_addr(addrs, indexes, pools) ==
  /\ lifecycle = "Running"
  /\ \E a \in addrs, index \in indexes, pool \in pools, res \in MbxResults :
       \E r \in {add_mac_addr(perm_addr, a, res)} :
          /\ ops' = r.ops
          /\ logs' = r.logs
          /\ ret' = r.ret
          /\ pf_uc' = PfAfter(pf_uc, r.ops)
          /\ call' = Call("add", "primary", index, a, {})
  /\ entry_intr' = hw_intr
  /\ UNCHANGED <<lifecycle, api_version, perm_addr, mac_addrs, mask_misc,
                 hw_intr, nb_tx_queues, tx_queues, bind, dev_info>>

remove_zeroes_slot ==
  /\ lifecycle = "Running"
  /\ \E index \in 0..(NumRarEntries - 1), rc \in MbxResults :
     \E rs \in ReplayResults(mac_addrs, perm_addr, index) :
       \E o \in {remove_mac_addr(mac_addrs, perm_addr, index, rc, rs)} :
          /\ ops' = o
          /\ logs' = replay_logs(o)
          /\ pf_uc' = PfAfter(pf_uc, o)
          /\ mac_addrs' = [mac_addrs EXCEPT ![index + 1] = ZeroAddr]
          /\ call' = Call("remove", "primary", index,
                          Slot(mac_addrs, index), {})
  /\ ret' = 0
  /\ entry_intr' = hw_intr
  /\ UNCHANGED <<lifecycle, api_version, perm_addr, mask_misc,
                 hw_intr, nb_tx_queues, tx_queues, bind, dev_info>>

\* txgbevf_remove_mac_addr(dev, index)
txgbevf_remove_mac_addr ==
  /\ lifecycle = "Running"
  /\ \E index \in 0..(NumRarEntries - 1), rc \in MbxResults :
     \E rs \in ReplayResults(mac_addrs, perm_addr, index) :
       \E o \in {remove_mac_addr(mac_addrs, perm_addr, index, rc, rs)} :
          /\ ops' = o
          /\ logs' = replay_logs(o)
          /\ pf_uc' = PfAfter(pf_uc, o)
          /\ call' = Call("remove", "primary", index,
                          Slot(mac_addrs, index), {})
  /\ ret' = 0
  /\ entry_intr' = hw_intr
  /\ UNCHANGED <<lifecycle, api_version, perm_addr, mac_addrs, mask_misc,
                 hw_intr, nb_tx_queues, tx_queues, bind, dev_info>>

\* lines 460-469: txgbevf_set_default_mac_addr(dev, addr); the result of
\* hw->mac.set_rar is not looked at
txgbevf_set_default_mac_addr(addrs) ==
  /\ lifecycle = "Running"
  /\ \E a \in addrs, res \in MbxResults :
       /\ ops' = <<Ev("set_rar", 0, a, res)>>
       /\ logs' = <<>>
       /\ call' = Call("set_default", "primary", 0, a, {})
  /\ ret' = 0
  /\ entry_intr' = hw_intr
  /\ UNCHANGED <<lifecycle, api_version, perm_addr, mac_addrs, mask_misc,
                 hw_intr, pf_uc, nb_tx_queues, tx_queues, bind, dev_info>>

\* lines 265-314: txgbevf_dev_info_get(dev, dev_info)
txgbevf_dev_info_get ==
  /\ lifecycle = "Running"
  /\ \E rxq \in OffloadWords, rxp \in OffloadWords,
        txq \in OffloadWords, txp \in OffloadWords :
       /\ dev_info' = dev_info_offloads(rxq, rxp, txq, txp)
       /\ ops' = <<Ev("txgbe_get_rx_queue_offloads", 0, NoAddr, rxq),
                   Ev("txgbe_get_rx_port_offloads", 0, NoAddr, rxp),
                   Ev("txgbe_get_tx_queue_offloads", 0, NoAddr, txq),
                   Ev("txgbe_get_tx_port_offloads", 0, NoAddr, txp)>>
  /\ logs' = <<>>
  /\ ret' = 0
  /\ call' = Call("info_get", "primary", 0, NoAddr, {})
  /\ entry_intr' = hw_intr
  /\ UNCHANGED <<lifecycle, api_version, perm_addr, mac_addrs, mask_misc,
                 hw_intr, pf_uc, nb_tx_queues, tx_queues, bind>>

(* --------------------- the framework around the driver ---------------- *)

Idle == Call("none", "primary", 0, NoAddr, {})

\* the ethdev layer keeps the table: it stores an address after a
\* successful add or set-default and zeroes a slot after a remove
ethdev_mac_addrs_write(slots, addrs) ==
  /\ lifecycle = "Running"
  /\ \E i \in slots, a \in addrs :
       /\ Slot(mac_addrs, i) # a
       /\ mac_addrs' = [mac_addrs EXCEPT ![i + 1] = a]
  /\ call' = Idle
  /\ ops' = <<>>
  /\ logs' = <<>>
  /\ ret' = 0
  /\ entry_intr' = hw_intr
  /\ UNCHANGED <<lifecycle, api_version, perm_addr, mask_misc, hw_intr,
                 pf_uc, nb_tx_queues, tx_queues, bind, dev_info>>

\* the ethdev layer configures the transmit queues of a running device:
\* the queue array is there exactly when the count is not zero
ethdev_tx_queue_config ==
  /\ lifecycle = "Running"
  /\ \E n \in 0..MaxTxQueues :
       /\ n # nb_tx_queues
       /\ nb_tx_queues' = n
       /\ tx_queues' = IF n = 0 THEN NULL ELSE <<"array">>
  /\ call' = Idle
  /\ ops' = <<>>
  /\ logs' = <<>>
  /\ ret' = 0
  /\ entry_intr' = hw_intr
  /\ UNCHANGED <<lifecycle, api_version, perm_addr, mac_addrs, mask_misc,
                 hw_intr, pf_uc, bind, dev_info>>

\* after a close, or an init that failed, the ethdev layer releases the
\* port: its data and the driver's private data are freed and zeroed.  The
\* device registers and the PF keep what they hold.
ethdev_release_port ==
  /\ lifecycle \in {"Closed", "InitFailed"}
  /\ lifecycle' = "Uninitialized"
  /\ api_version' = 0
  /\ perm_addr' = ZeroAddr
  /\ mac_addrs' = NULL
  /\ mask_misc' = 0
  /\ nb_tx_queues' = 0
  /\ tx_queues' = NULL
  /\ bind' = [p \in Procs |-> NoBind]
  /\ call' = Idle
  /\ ops' = <<>>
  /\ logs' = <<>>
  /\ ret' = 0
  /\ entry_intr' = hw_intr
  /\ UNCHANGED <<hw_intr, pf_uc, dev_info>>

(* ---------------------------- specifications -------------------------- *)

Init ==
  /\ lifecycle = "Uninitialized"
  /\ api_version = 0
  /\ perm_addr = ZeroAddr
  /\ mac_addrs = NULL
  /\ mask_misc = 0
  /\ hw_intr = "none"
  /\ entry_intr = "none"
  /\ pf_uc = {}
  /\ nb_tx_queues = 0
  /\ tx_queues = NULL
  /\ bind = [p \in Procs |-> NoBind]
  /\ call = Idle
  /\ ops = <<>>
  /\ logs = <<>>
  /\ ret = 0
  /\ dev_info = NoInfo

\* the life of one device in the primary process: probe, use, close,
\* release, probe again
Next ==
  \/ eth_txgbevf_dev_init("primary")
  \/ txgbevf_dev_close("primary")
  \/ eth_txgbevf_dev_uninit("primary")
  \/ txgbevf_add_mac_addr({UserA, perm_addr}, {1}, {0})
  \/ txgbevf_remove_mac_addr
  \/ txgbevf_set_default_mac_addr({UserA})
  \/ ethdev_mac_addrs_write(1..(NumRarEntries - 1), {ZeroAddr, UserA})
  \/ ethdev_release_port

Spec == Init /\ [][Next]_vars

\* the address handlers on a running device, over every table content
InitMac ==
  /\ \E in \in InitInputs :
       \E r \in {dev_init_primary(
                  [perm |-> ZeroAddr, mac |-> NULL, api |-> 0, mask |-> 0,
                   hw |-> "none"], in)} :
          /\ r.ret = 0
          /\ in.accept = {sup_ver[k] : k \in 1..Len(sup_ver)}
          /\ in.reset = 0
          /\ in.random = 0
          /\ in.queues = 0
          /\ perm_addr = r.perm
          /\ mac_addrs = r.mac
          /\ api_version = r.api
          /\ mask_misc = r.mask
          /\ hw_intr = r.hw
          /\ ops = r.ops
          /\ logs = r.logs
          /\ ret = r.ret
          /\ call = Call("init", "primary", 0, NoAddr, in.accept)
  /\ lifecycle = "Running"
  /\ entry_intr = "none"
  /\ dev_info = NoInfo
  /\ pf_uc = {}
  /\ nb_tx_queues = 0
  /\ tx_queues = NULL
  /\ bind = [p \in Procs |-> IF p = "primary"
                               THEN [NoBind EXCEPT !.dev_ops = TRUE]
                               ELSE NoBind]

NextMac ==
  \/ txgbevf_add_mac_addr(UserAddrs \cup {perm_addr},
                          0..(NumRarEntries - 1), {0})
  \/ txgbevf_remove_mac_addr
  \/ txgbevf_set_default_mac_addr(UserAddrs \cup {perm_addr})
  \/ ethdev_mac_addrs_write(0..(NumRarEntries - 1),
                            UserAddrs \cup {ZeroAddr, perm_addr})

SpecMac == InitMac /\ [][NextMac]_vars

\* primary and secondary processes on one device, and its transmit queues
NextSec ==
  \/ \E proc \in Procs : eth_txgbevf_dev_init(proc)
  \/ \E proc \in Procs : txgbevf_dev_close(proc)
  \/ \E proc \in Procs : eth_txgbevf_dev_uninit(proc)
  \/ ethdev_tx_queue_config
  \/ ethdev_release_port

SpecSec == Init /\ [][NextSec]_vars

\* the information queries on a running device while its queues are set up
NextInfo ==
  \/ txgbevf_dev_info_get
  \/ ethdev_tx_queue_config

SpecInfo == InitMac /\ [][NextInfo]_vars

(* ------------------------------- properties --------------------------- *)

Positions(o, name) == {k \in 1..Len(o) : o[k].op = name}
Has(o, name) == Positions(o, name) # {}
First(o, name) == CHOOSE k \in Positions(o, name) :
                    \A m \in Positions(o, name) : k <= m
SetMax(S) == CHOOSE x \in S : \A y \in S : y <= x

PrimaryInit == call.op = "init" /\ call.proc = "primary"
PrimaryClose == call.op \in {"close", "uninit"} /\ call.proc = "primary"

\* C1: after an init whose reset was accepted, the active mailbox API
\* version is the highest version the PF acknowledged, or the basic version
\* 10 when it acknowledged none, and in both cases the init went on to the
\* queue query: the negotiation handed no error to its caller.
C1_NegotiatedHighest ==
  (PrimaryInit /\ Has(ops, "reset_hw")
     /\ ops[First(ops, "reset_hw")].res \in {0, TXGBE_ERR_INVALID_MAC_ADDR})
  => /\ Has(ops, "txgbevf_get_queues")
     /\ api_version = IF call.accept = {} THEN txgbe_mbox_api_10
                      ELSE SetMax(call.accept)

C1_Witness ==
  /\ PrimaryInit
  /\ call.accept = {txgbe_mbox_api_10, txgbe_mbox_api_12}
  /\ api_version = txgbe_mbox_api_12

\* the slots a removal of slot index has to program again
Kept(tbl, perm, index) ==
  {j \in 0..(NumRarEntries - 1) :
     j # index /\ Slot(tbl, j) # ZeroAddr /\ Slot(tbl, j) # perm}

\* C2: a remove(i) issues one clear request and then one add request for
\* each slot other than i that is neither empty nor the permanent address,
\* in ascending slot order and once each, whatever the mailbox answers.
C2_RemoveReplaySequence ==
  call.op = "remove" =>
    LET J == Kept(mac_addrs, perm_addr, call.index)
    IN /\ Len(ops) = 1 + Cardinality(J)
       /\ ops[1].op = "txgbevf_set_uc_addr_vf" /\ ops[1].val = 0
       /\ \A j \in J :
            LET k == 2 + Cardinality({m \in J : m < j})
            IN /\ ops[k].op = "txgbevf_set_uc_addr_vf"
               /\ ops[k].val = 2
               /\ ops[k].addr = Slot(mac_addrs, j)

C2_Witness ==
  /\ call.op = "remove"
  /\ Len(ops) = 3
  /\ ops[1].res # 0
  /\ ops[2].res # 0
  /\ ops[3].res = 0
  /\ ops[2].addr # ops[3].addr

\* C3: a remove(i) never issues an add request that carries the address
\* stored in slot i when it was called.
C3_RemovedAddressNotReadded ==
  call.op = "remove" =>
    \A k \in 1..Len(ops) : ops[k].val = 2 => ops[k].addr # call.addr

\* C4: an add of the permanent address returns -1, issues no mailbox
\* request and leaves the table, the permanent address and the PF's
\* programmed set as they were.
C4_AddPermanentRejected ==
  [][(call'.op = "add" /\ call'.addr = perm_addr)
       => /\ ret' = 0 - 1
          /\ ops' = <<>>
          /\ mac_addrs' = mac_addrs
          /\ perm_addr' = perm_addr
          /\ pf_uc' = pf_uc]_vars

C4_Witness ==
  /\ call.op = "add"
  /\ call.addr = perm_addr
  /\ ret = 0 - 1
  /\ call.index = NumRarEntries - 1
  /\ pf_uc = UserAddrs
  /\ Slot(mac_addrs, 1) = UserA

\* C5: an add of any other address issues exactly one add request carrying
\* it, returns the mailbox's answer, and leaves the device running with its
\* table and interrupt mirror as they were.
C5_AddForwarded ==
  [][(call'.op = "add" /\ call'.addr # perm_addr)
       => /\ Len(ops') = 1
          /\ ops'[1].op = "txgbevf_set_uc_addr_vf"
          /\ ops'[1].val = 2
          /\ ops'[1].addr = call'.addr
          /\ ret' = ops'[1].res
          /\ lifecycle' = "Running"
          /\ mac_addrs' = mac_addrs /\ mac_addrs' # NULL
          /\ mask_misc' = mask_misc]_vars

C5_Witness ==
  /\ call.op = "add"
  /\ ret = TXGBE_ERR_MBOX
  /\ call.addr \in pf_uc
  /\ Slot(mac_addrs, 1) = call.addr
  /\ lifecycle = "Running"

\* C6: an init goes on to the negotiation after a reset that returned 0 or
\* the no-MAC-address code; after any other reset result it returns -EAGAIN
\* and the reset is the last thing it did.
C6_ResetOutcome ==
  (PrimaryInit /\ Has(ops, "reset_hw")) =>
    LET k == First(ops, "reset_hw")
    IN IF ops[k].res \in {0, TXGBE_ERR_INVALID_MAC_ADDR}
         THEN Len(ops) > k /\ ops[k + 1].op = "negotiate_api_version"
         ELSE /\ ret = 0 - EAGAIN
              /\ Len(ops) = k
              /\ mac_addrs = NULL
              /\ lifecycle = "InitFailed"

C6_Witness ==
  /\ PrimaryInit
  /\ Has(ops, "reset_hw")
  /\ ops[First(ops, "reset_hw")].res = TXGBE_ERR_INVALID_MAC_ADDR
  /\ Has(ops, "negotiate_api_version")
  /\ ret = 0

\* C7: an init that returns -EIO leaves no address table allocated.
C7_NoTableAfterFatalInit ==
  (PrimaryInit /\ ret = 0 - EIO) => mac_addrs = NULL

\* the interrupt register written last before position k of the handler
IntrBefore(k) ==
  LET W == {m \in 1..(k - 1) : ops[m].op \in {"wr32_VFIMS", "wr32_VFIMC"}}
  IN IF W = {} THEN entry_intr ELSE ops[SetMax(W)].op

MaskedBefore(k) ==
  /\ IntrBefore(k) \in {"VFIMS", "wr32_VFIMS"}
  /\ (IntrBefore(k) = "wr32_VFIMS" =>
        \E m \in 1..(k - 1) :
          /\ ops[m].op = "txgbe_flush"
          /\ m > SetMax({w \in 1..(k - 1) : ops[w].op = "wr32_VFIMS"}))

EnableOnlyAfterStart ==
  \A k \in Positions(ops, "wr32_VFIMC") :
    /\ PrimaryInit
    /\ ret = 0
    /\ \E m \in 1..(k - 1) : ops[m].op = "start_hw" /\ ops[m].res = 0

\* C8 as claimed: in init and in close every reset is issued with the
\* interrupts disabled, and the enable only after a successful start.
C8_ResetAlwaysMasked ==
  /\ \A k \in Positions(ops, "reset_hw") : MaskedBefore(k)
  /\ EnableOnlyAfterStart

\* C8 amended: in init the reset follows a completed interrupt disable and
\* the enable follows a successful start, never on an error path; in close
\* the reset comes first, with the interrupts still enabled from init, and
\* the disable follows it.
C8_ResetMaskedInInit ==
  /\ PrimaryInit => \A k \in Positions(ops, "reset_hw") : MaskedBefore(k)
  /\ EnableOnlyAfterStart
  /\ PrimaryClose =>
       /\ ops[1].op = "reset_hw"
       /\ entry_intr = "VFIMC"
       /\ Has(ops, "wr32_VFIMS")

C8_Witness ==
  /\ PrimaryClose
  /\ ops[1].op = "reset_hw"
  /\ IntrBefore(1) = "VFIMC"

\* C9: after a successful init the permanent address is not zero and is in
\* slot 0.  If the reset left it zero it is a generated address with bytes
\* 02 09 C0 in front, installed with set_rar_vf before it was copied to
\* slot 0; otherwise it is the address the reset left and nothing was
\* generated or installed.
C9_PermanentAddressResolved ==
  (PrimaryInit /\ ret = 0) =>
    LET after_reset == ops[First(ops, "reset_hw")].addr
    IN /\ perm_addr # ZeroAddr
       /\ Slot(mac_addrs, 0) = perm_addr
       /\ IF after_reset = ZeroAddr
            THEN /\ perm_addr[1] = 2 /\ perm_addr[2] = 9 /\ perm_addr[3] = 192
                 /\ \E i, j \in 1..Len(ops) :
                      /\ i < j
                      /\ ops[i].op = "txgbe_set_rar_vf"
                      /\ ops[i].addr = perm_addr
                      /\ ops[i].res = 0
                      /\ ops[j].op = "rte_ether_addr_copy"
                      /\ ops[j].addr = perm_addr
            ELSE /\ perm_addr = after_reset
                 /\ ~Has(ops, "rte_rand")
                 /\ ~Has(ops, "txgbe_set_rar_vf")

C9_Witness ==
  /\ PrimaryInit
  /\ ret = 0
  /\ ops[First(ops, "reset_hw")].res = 0
  /\ ops[First(ops, "reset_hw")].addr = ZeroAddr
  /\ perm_addr = <<2, 9, 192, 1, 0, 0>>

\* C10: a handler run in a secondary process returns 0 and changes nothing
\* but that process's own bindings: no register, reset, mailbox or start
\* call, table, mirror and negotiated version as before; close and uninit
\* do nothing at all.
C10_SecondaryTouchesNothing ==
  [][call'.proc = "secondary"
       => /\ ret' = 0
          /\ \A k \in 1..Len(ops') :
               ops'[k].op \in {"txgbe_set_tx_function", "txgbe_set_rx_function"}
          /\ UNCHANGED <<lifecycle, api_version, perm_addr, mac_addrs,
                         mask_misc, hw_intr, pf_uc, nb_tx_queues, tx_queues,
                         dev_info>>
          /\ bind'["primary"] = bind["primary"]
          /\ call'.op \in {"close", "uninit"}
               => ops' = <<>> /\ bind' = bind]_vars

\* the word a capability query handed back to the last info query
Offloads(name) == ops[First(ops, name)].res

\* C11: a secondary attach that finds the transmit queue count at zero
\* returns 0, keeps the transmit function the process has - the default
\* one in a process that has selected none - and reads no queue entry.
C11_NoQueueReadWithoutQueues ==
  [][(call'.op = "init" /\ call'.proc = "secondary" /\ nb_tx_queues = 0)
       => /\ ret' = 0
          /\ bind'["secondary"].tx = bind["secondary"].tx
          /\ ~Has(ops', "txgbe_set_tx_function")]_vars

\* C13: an info query returns 0 and, for receive and for transmit, the
\* port-level offload word it reports is the OR of what the port-level and
\* the queue-level capability queries returned, so that every queue-level
\* bit reported is also reported at port level.
C13_PortOffloadsAreUnion ==
  call.op = "info_get" =>
    /\ ret = 0
    /\ dev_info.rx_queue_offload_capa = Offloads("txgbe_get_rx_queue_offloads")
    /\ dev_info.tx_queue_offload_capa = Offloads("txgbe_get_tx_queue_offloads")
    /\ dev_info.rx_offload_capa =
         BitOr(Offloads("txgbe_get_rx_port_offloads"),
               Offloads("txgbe_get_rx_queue_offloads"))
    /\ dev_info.tx_offload_capa =
         BitOr(Offloads("txgbe_get_tx_port_offloads"),
               Offloads("txgbe_get_tx_queue_offloads"))
    /\ BitOr(dev_info.rx_offload_capa, dev_info.rx_queue_offload_capa)
         = dev_info.rx_offload_capa
    /\ BitOr(dev_info.tx_offload_capa, dev_info.tx_queue_offload_capa)
         = dev_info.tx_offload_capa

\* C12: a primary close calls, in this order and once each, the hardware
\* reset, the queue release, the removal of slot 0 (one clear request, then
\* one re-add for each slot the replay keeps), the interrupt disable and the
\* release of the table; it returns 0 whatever the reset and the mailbox
\* answered, and leaves the table pointer NULL and the mirror at full mask.
C12_CloseOrder ==
  [][PrimaryClose' =>
       LET n == Len(ops')
           J == Kept(mac_addrs, perm_addr', 0)
       IN /\ n = 6 + Cardinality(J)
          /\ ops'[1].op = "reset_hw"
          /\ ops'[2].op = "txgbe_dev_free_queues"
          /\ ops'[3].op = "txgbevf_set_uc_addr_vf" /\ ops'[3].val = 0
          /\ \A k \in 4..(n - 3) :
               /\ ops'[k].op = "txgbevf_set_uc_addr_vf"
               /\ ops'[k].val = 2
               /\ \E j \in J : ops'[k].addr = Slot(mac_addrs, j)
          /\ ops'[n - 2].op = "wr32_VFIMS"
          /\ ops'[n - 1].op = "txgbe_flush"
          /\ ops'[n].op = "rte_free"
          /\ ret' = 0
          /\ mac_addrs' = NULL
          /\ mask_misc' = TXGBE_VFIMS_MASK]_vars

C12_Witness ==
  /\ PrimaryClose
  /\ call.op = "close"
  /\ Len(ops) = 7
  /\ ops[1].res = TXGBE_ERR_RESET_FAILED
  /\ ops[3].res # 0
  /\ ops[4].res # 0
  /\ ret = 0
  /\ mac_addrs = NULL

\* the calls of one handler that allocate, and that release, memory
Allocs(o) == {k \in 1..Len(o) : o[k].op = "rte_zmalloc" /\ o[k].res # 0}
Frees(o) == Positions(o, "rte_free")

\* C20: with close run only on a device whose init succeeded, the table is
\* allocated wherever the replay reads it - in a remove, and in a close,
\* whose replay requests all come before its one release of the table -
\* and the table a successful init allocated is released once: only that
\* close releases, and no other handler allocates or releases.
C20_TableLiveWhenReplayed ==
  [][/\ PrimaryClose' =>
          /\ lifecycle = "Running" /\ mac_addrs # NULL
          /\ Cardinality(Frees(ops')) = 1
          /\ Has(ops', "txgbevf_set_uc_addr_vf")
          /\ \A k \in Positions(ops', "txgbevf_set_uc_addr_vf") :
               \A f \in Frees(ops') : k < f
          /\ mac_addrs' = NULL
     /\ call'.op = "remove" => mac_addrs # NULL /\ mac_addrs' = mac_addrs
     /\ (PrimaryInit' /\ ret' = 0) =>
          /\ mac_addrs = NULL /\ mac_addrs' # NULL
          /\ Cardinality(Allocs(ops')) = 1
          /\ Frees(ops') = {}
     /\ (call'.op \notin {"none", "init", "close", "uninit"}) =>
          /\ Allocs(ops') = {} /\ Frees(ops') = {}
          /\ (mac_addrs' = NULL) = (mac_addrs = NULL)]_vars

C20_Witness ==
  /\ PrimaryClose
  /\ call.op = "uninit"
  /\ Len(ops) = 8
  /\ ops[8].op = "rte_free"
  /\ ops[5].op = "txgbevf_set_uc_addr_vf"
  /\ lifecycle = "Closed"

\* the collaborator calls whose failures C14 is about, and when one failed:
\* "no address assigned" is the answer of a reset that worked
CheckedCalls == {"txgbe_init_shared_code", "reset_hw", "txgbevf_get_queues",
                 "txgbe_set_rar_vf", "set_rar", "start_hw",
                 "txgbevf_set_uc_addr_vf"}
Failed(e) ==
  /\ e.op \in CheckedCalls
  /\ e.res # 0
  /\ ~(e.op = "reset_hw" /\ e.res = TXGBE_ERR_INVALID_MAC_ADDR)
Logged(e) == \E l \in 1..Len(logs) : logs[l] = Lg(e.op, e.res)

\* the failed calls of the last handler whose code was neither returned
\* nor logged
Dropped == {k \in 1..Len(ops) : /\ Failed(ops[k])
                                /\ ret # ops[k].res
                                /\ ~Logged(ops[k])}

DriverHandler ==
  /\ call.proc = "primary"
  /\ call.op \in {"init", "add", "remove", "set_default", "close", "uninit"}

ClearAll(e) == e.op = "txgbevf_set_uc_addr_vf" /\ e.val = 0

\* C14 as claimed: in init, add, remove, set_default and close a failed
\* collaborator call is returned or logged, unless it is the clear request
\* of a removal.
C14_OnlyClearAllDropped ==
  DriverHandler => \A k \in Dropped : ClearAll(ops[k])

\* C14 amended: a failed shared-code init, reset in init, set-address
\* install in init, start and add-unicast request (in add and in the
\* replay) is returned or logged.  Dropped without return or log are the
\* clear request of a removal, the queue-resource query of init, after
\* which init carries on, the reset of close, and the set-address call of
\* set_default; close and set_default return 0.
C14_DroppedResults ==
  DriverHandler =>
    /\ \A k \in Dropped :
         \/ ClearAll(ops[k])
         \/ PrimaryInit /\ ops[k].op = "txgbevf_get_queues"
         \/ PrimaryClose /\ ops[k].op = "reset_hw"
         \/ call.op = "set_default" /\ ops[k].op = "set_rar"
    /\ PrimaryInit =>
         \A k \in Positions(ops, "txgbevf_get_queues") :
           Len(ops) > k /\ ops[k + 1].op = "rte_zmalloc"
    /\ (PrimaryClose \/ call.op = "set_default") => ret = 0

C14_Witness ==
  /\ PrimaryInit
  /\ ret = 0
  /\ Has(ops, "txgbevf_get_queues")
  /\ ops[First(ops, "txgbevf_get_queues")].res # 0
  /\ logs = <<>>
  /\ lifecycle = "Running"

\* the versions in the order C15 gives them
DescendingVersions == <<txgbe_mbox_api_13, txgbe_mbox_api_12,
                        txgbe_mbox_api_11, txgbe_mbox_api_10>>

\* C15: the negotiation requests of one init are consecutive and ask for
\* 13, 12, 11, 10 in this order, each once at most; every request but the
\* last was refused, so none follows an accepted one, and when the last was
\* refused too there are four.
C15_NegotiationOrder ==
  (PrimaryInit /\ Has(ops, "negotiate_api_version")) =>
    LET N == Positions(ops, "negotiate_api_version")
        a == First(ops, "negotiate_api_version")
        n == Cardinality(N)
    IN /\ N = a..(a + n - 1)
       /\ n <= Len(DescendingVersions)
       /\ \A i \in 1..n :
            /\ ops[a + i - 1].val = DescendingVersions[i]
            /\ (ops[a + i - 1].res = 0) = (ops[a + i - 1].val \in call.accept)
            /\ i < n => ops[a + i - 1].res # 0
       /\ ops[a + n - 1].res # 0 => n = Len(DescendingVersions)

C15_Witness ==
  /\ PrimaryInit
  /\ call.accept = {txgbe_mbox_api_11, txgbe_mbox_api_10}
  /\ Cardinality(Positions(ops, "negotiate_api_version")) = 3
  /\ api_version = txgbe_mbox_api_11

\* C16: an init whose set_rar_vf for the generated address failed found the
\* permanent address zero after the reset, returns that failure code, has
\* released the table as its last call and left the pointer NULL, and has
\* neither started the hardware nor enabled interrupts; an init whose table
\* allocation failed returns -ENOMEM and has generated and installed no
\* address.
C16_AddressSetupFailures ==
  PrimaryInit =>
    /\ \A k \in Positions(ops, "txgbe_set_rar_vf") :
         /\ ops[First(ops, "reset_hw")].addr = ZeroAddr
         /\ ops[k].res # 0 =>
              /\ ret = ops[k].res
              /\ \E m \in 1..(k - 1) :
                   ops[m].op = "rte_zmalloc" /\ ops[m].res # 0
              /\ Len(ops) = k + 1
              /\ ops[k + 1].op = "rte_free"
              /\ mac_addrs = NULL
              /\ ~Has(ops, "start_hw")
              /\ ~Has(ops, "wr32_VFIMC")
    /\ \A k \in Positions(ops, "rte_zmalloc") :
         ops[k].res = 0 =>
           /\ ret = 0 - ENOMEM
           /\ Len(ops) = k
           /\ mac_addrs = NULL
           /\ ~Has(ops, "rte_rand")
           /\ ~Has(ops, "txgbe_set_rar_vf")

C16_Witness ==
  /\ PrimaryInit
  /\ Has(ops, "txgbe_set_rar_vf")
  /\ ops[First(ops, "txgbe_set_rar_vf")].res = TXGBE_ERR_MBOX
  /\ ret = TXGBE_ERR_MBOX
  /\ mac_addrs = NULL
  /\ lifecycle = "InitFailed"

\* the interrupt register writes of a handler
IntrWrites(o) == {k \in 1..Len(o) : o[k].op \in {"wr32_VFIMS", "wr32_VFIMC"}}

\* C17: every handler leaves the mirror at what its last interrupt write
\* implies - the full mask after a disable, zero after an enable - and as
\* it was when it wrote none; so the mirror is zero after an init that
\* succeeded, and the full mask after an init that failed past its
\* interrupt disable and after a close.
C17_MirrorFollowsLastWrite ==
  [][call'.op # "none" =>
       /\ IF IntrWrites(ops') = {}
            THEN mask_misc' = mask_misc
            ELSE mask_misc' =
                   IF ops'[SetMax(IntrWrites(ops'))].op = "wr32_VFIMS"
                     THEN TXGBE_VFIMS_MASK ELSE 0
       /\ (PrimaryInit' /\ ret' = 0) =>
            mask_misc' = 0 /\ hw_intr' = "VFIMC"
       /\ (PrimaryInit' /\ ret' # 0 /\ Has(ops', "wr32_VFIMS")) =>
            mask_misc' = TXGBE_VFIMS_MASK /\ hw_intr' = "VFIMS"
       /\ PrimaryClose' =>
            mask_misc' = TXGBE_VFIMS_MASK /\ hw_intr' = "VFIMS"]_vars

C17_Witness ==
  /\ PrimaryInit
  /\ ret = 0 - EIO
  /\ Has(ops, "start_hw")
  /\ mask_misc = TXGBE_VFIMS_MASK
  /\ hw_intr = "VFIMS"

\* C18: a remove(i), for every i and whatever the mailbox answers, leaves
\* every slot of the table and the permanent address as they were.
C18_RemoveWritesNoTable ==
  [][call'.op = "remove" =>
       /\ \A j \in 0..(NumRarEntries - 1) :
            Slot(mac_addrs', j) = Slot(mac_addrs, j)
       /\ perm_addr' = perm_addr]_vars

C18_Witness ==
  /\ call.op = "remove"
  /\ call.index = 0
  /\ Slot(mac_addrs, 0) = perm_addr
  /\ Slot(mac_addrs, 1) = UserA
  /\ Len(ops) = 2
  /\ ops[1].res # 0
  /\ ops[2].res # 0

\* C19: on a running device, whatever add, remove and set_default calls
\* are made, the permanent address stays the one init resolved and no add
\* request sent to the PF carries it: an add of it sends nothing, a replay
\* passes it over; a set_default sends no mailbox request and changes
\* neither the permanent address nor the table.
C19_PermanentNeverRequested ==
  [][/\ perm_addr' = perm_addr
     /\ \A k \in 1..Len(ops') :
          (ops'[k].op = "txgbevf_set_uc_addr_vf" /\ ops'[k].val # 0)
            => ops'[k].addr # perm_addr
     /\ (call'.op = "add" /\ call'.addr = perm_addr) =>
          ops' = <<>> /\ ret' # 0
     /\ call'.op = "set_default" =>
          /\ mac_addrs' = mac_addrs
          /\ ~Has(ops', "txgbevf_set_uc_addr_vf")]_vars

C19_Witness ==
  /\ call.op = "remove"
  /\ call.index = 2
  /\ Slot(mac_addrs, 0) = UserA
  /\ Slot(mac_addrs, 1) = perm_addr
  /\ Len(ops) = 2
  /\ ops[2].addr = UserA

====
